---- MODULE Spec2Model ----
(***************************************************************************)
(* Access-control model of the chat backend: the conversations,            *)
(* conversation_members and messages tables with their row-level policies  *)
(* (both migrations applied), and the sidebar handlers that create         *)
(* conversations through them.                                             *)
(***************************************************************************)
EXTENDS Integers, FiniteSets, Sequences, TLC

\* Bounds of the model.
MaxConvs == 2
MaxMsgs == 1
MaxDeliveries == 2   \* times the feed may send one insert event to a client
MaxInFlight == 2     \* fetchMessages requests of one client awaiting their response
MaxList == 3         \* entries MessagePanel's list may hold
MaxTime == 2         \* values of read_at
MaxHandlers == 2     \* startDM / startGroup calls of one client under way

\* auth.users: the authenticated identities (auth.uid() ranges over them).
Users == {"A", "B"}
ConvIds == 1..MaxConvs
MsgIds == 1..MaxMsgs
ConvTypes == {"dm", "group"}

\* null: no conversation selected, no row id.
Null == 0
NoUser == "-"
NoRow == [conversation_id |-> Null, sender_id |-> NoUser]

\* SQL NULL in a text column / an absent JSON key.
NullText == "NULL"
\* auth.users.email and raw_user_meta_data->>'display_name' at signup.
Emails == {"a@chat.io", "b@chat.io"}
Names == {"", "Ann"}
Times == 1..MaxTime

VARIABLES
  conversations,         \* conversation id -> "none" | "dm" | "group"
  conversation_members,  \* set of <<conversation_id, user_id>> rows
  messages,              \* message id -> NoRow | [conversation_id, sender_id]
                         \* (content, which no policy reads, is left out)
  msgCount,              \* how many message ids have been generated
  last,                  \* the last statement and its outcome
  handlers,              \* per client: the startDM / startGroup calls under way
  loading,               \* per client: the mounted ChatSidebar's `loading` state
  convList,              \* per client: ChatSidebar's `conversations` state
  frun,                  \* per client: the fetchConversations call of the
                         \* mounted sidebar's effect
  activeConversationId,  \* per client: Chat's activeConversationId
  isMobile,              \* per client: useIsMobile()
  panelConv,             \* per client: the conversationId MessagePanel's effect last ran with
  channelJoined,         \* per client: the effect's channel is subscribed at the server
  fetches,               \* per client: fetchMessages requests without a processed response
  panelMessages,         \* per client: MessagePanel's `messages` state
  inbox,                 \* per client: insert events on their way to the channel's handler
  openInserts,           \* history: <<u, m>> when m was inserted into the conversation
                         \* member u had open, during the effect that is still current
  read_receipts,         \* set of [message_id, user_id, read_at] rows
  auth_users,            \* set of [id, email, display_name] rows (display_name: the
                         \* raw_user_meta_data key)
  profiles               \* set of [id, display_name] rows

dbvars == <<conversations, conversation_members, messages, msgCount>>
appvars == <<handlers, loading, convList, frun,
            activeConversationId, isMobile>>
panelvars == <<panelConv, channelJoined, fetches, panelMessages>>
feedvars == <<inbox, openInserts>>
authvars == <<auth_users, profiles>>
restvars == <<panelvars, feedvars, read_receipts, authvars>>
vars == <<conversations, conversation_members, messages, msgCount, last,
          handlers, loading, convList, frun,
          activeConversationId, isMobile,
          panelConv, channelJoined, fetches, panelMessages, inbox, openInserts,
          read_receipts, auth_users, profiles>>

----------------------------------------------------------------------------
\* Helper predicate and the policies, each over a given membership set.

is_conversation_member(mem, c, u) == <<c, u>> \in mem

\* "Members can view conversations": USING (is_conversation_member(id, auth.uid()))
\* (variant: the policy lets every caller through)
ConvSelectPolicy_open(mem, u, c) == TRUE

ConvSelectPolicy(mem, u, c) == is_conversation_member(mem, c, u)

\* "Authenticated users can create conversations": WITH CHECK (true)
ConvInsertPolicy(u) == TRUE

\* "Members can view conversation members"
MemberSelectPolicy(mem, u, c) == is_conversation_member(mem, c, u)

\* First migration, dropped by the second: "Authenticated users can add members"
MemberInsertPolicy_v1(mem, u, c, v) == TRUE

\* (variant: self-join only, the "OR is_conversation_member" arm lost)
MemberInsertPolicy_selfOnly(mem, u, c, v) == v = u

\* "Users can join or add members to their conversations"
MemberInsertPolicy(mem, u, c, v) ==
  v = u \/ is_conversation_member(mem, c, u)

\* (variant: any member may remove a row of the conversation)
MemberDeletePolicy_member(mem, u, c, v) == is_conversation_member(mem, c, u)

\* "Users can leave conversations": USING (user_id = auth.uid())
MemberDeletePolicy(mem, u, c, v) == v = u

\* "Members can view messages"
MsgSelectPolicy(mem, u, row) == is_conversation_member(mem, row.conversation_id, u)

\* (variant: the membership conjunct lost)
MsgInsertPolicy_noMember(mem, u, row) == row.sender_id = u

\* "Members can send messages"
MsgInsertPolicy(mem, u, row) ==
  row.sender_id = u /\ is_conversation_member(mem, row.conversation_id, u)

\* "Senders can update messages": USING (sender_id = auth.uid()); with no
\* WITH CHECK clause the same expression is checked on the updated row.
MsgUpdatePolicy(mem, u, row) == row.sender_id = u

\* "Senders can delete messages"
MsgDeletePolicy(mem, u, row) == row.sender_id = u

----------------------------------------------------------------------------
\* Tables as the statements see them.

ConvExists(convs, c) == convs[c] # "none"

Members(mem, c) == {u \in Users : <<c, u>> \in mem}

\* SELECT * FROM conversations WHERE id = x, as caller u.
ViewConversation(convs, mem, u, x) ==
  {c \in {x} : ConvExists(convs, c) /\ ConvSelectPolicy(mem, u, c)}

\* SELECT user_id FROM conversation_members WHERE conversation_id = x, as caller u.
ViewMembers(mem, u, x) ==
  {r \in mem : r[1] = x /\ MemberSelectPolicy(mem, u, r[1])}

\* SELECT * FROM messages WHERE conversation_id = x, as caller u.
ViewMessages(msgs, mem, u, x) ==
  {m \in MsgIds : /\ msgs[m] # NoRow
                  /\ msgs[m].conversation_id = x
                  /\ MsgSelectPolicy(mem, u, msgs[m])}

\* INSERT INTO conversation_members (conversation_id, user_id) VALUES rows[1], ...
\* as one statement by caller u. Each row in turn: the policy's WITH CHECK,
\* whose is_conversation_member (STABLE) reads the table as of the start of the
\* statement (snap), then UNIQUE(conversation_id, user_id) against the rows
\* there are by now (cur); the foreign key to conversations(id) is checked
\* once the rows are in. The first failure aborts the whole statement.
RECURSIVE InsertMembersFrom(_, _, _, _, _, _)
InsertMembersFrom(convs, snap, cur, u, rows, i) ==
  IF i > Len(rows)
  THEN IF \E j \in 1..Len(rows) : ~ConvExists(convs, rows[j][1])
       THEN "fk" ELSE "ok"
  ELSE IF ~MemberInsertPolicy(snap, u, rows[i][1], rows[i][2]) THEN "denied"
  ELSE IF rows[i] \in cur THEN "unique"
  ELSE InsertMembersFrom(convs, snap, cur \cup {rows[i]}, u, rows, i + 1)

InsertMembersResult(convs, mem, u, rows) ==
  InsertMembersFrom(convs, mem, mem, u, rows, 1)

\* The single-row statement.
InsertMemberResult(convs, mem, u, c, v) ==
  InsertMembersResult(convs, mem, u, <<<<c, v>>>>)

\* DELETE FROM conversation_members WHERE conversation_id = c AND user_id = v:
\* rows that the select policy or the USING expression hides are not deleted
\* (no error).
DeleteMemberResult(mem, u, c, v) ==
  IF /\ <<c, v>> \in mem
     /\ MemberSelectPolicy(mem, u, c)
     /\ MemberDeletePolicy(mem, u, c, v)
  THEN "ok" ELSE "norows"

\* (variant: the foreign key looked at before the policy)
InsertMessageResult_fkFirst(convs, mem, u, row) ==
  IF ~ConvExists(convs, row.conversation_id) THEN "fk"
  ELSE IF ~MsgInsertPolicy(mem, u, row) THEN "denied"
  ELSE "ok"

\* INSERT INTO messages (conversation_id, sender_id, content) VALUES row:
\* the policy's WITH CHECK, then the foreign key to conversations(id).
InsertMessageResult(convs, mem, u, row) ==
  IF ~MsgInsertPolicy(mem, u, row) THEN "denied"
  ELSE IF ~ConvExists(convs, row.conversation_id) THEN "fk"
  ELSE "ok"

\* UPDATE messages SET (conversation_id, sender_id) = new WHERE id = m (an
\* edit of the content alone is the update with new = old). The WHERE clause
\* reads the row, so the row must pass "Members can view messages" as well as
\* the USING expression of the update policy (rows that do not are skipped,
\* no error); the updated row must pass the update policy's expression (no
\* WITH CHECK clause) and the select policy, else the statement is refused;
\* then the foreign key.
UpdateMessageResult(convs, mem, u, old, new) ==
  IF old = NoRow \/ ~MsgSelectPolicy(mem, u, old) \/ ~MsgUpdatePolicy(mem, u, old)
  THEN "norows"
  ELSE IF ~MsgUpdatePolicy(mem, u, new) \/ ~MsgSelectPolicy(mem, u, new)
  THEN "denied"
  ELSE IF ~ConvExists(convs, new.conversation_id) THEN "fk"
  ELSE "ok"

\* DELETE FROM messages WHERE id = m: the rows that pass "Members can view
\* messages" (the WHERE clause reads them) and the delete policy.
DeleteMessageResult(mem, u, old) ==
  IF old # NoRow /\ MsgSelectPolicy(mem, u, old) /\ MsgDeletePolicy(mem, u, old)
  THEN "ok" ELSE "norows"

\* "Members can update conversations": USING (is_conversation_member(id,
\* auth.uid())), no WITH CHECK, no column restriction.
ConvUpdatePolicy(mem, u, c) == is_conversation_member(mem, c, u)

\* UPDATE conversations SET type = t WHERE id = c: the row must pass the
\* select policy and the update policy; the updated row has the same id, so
\* it passes them as well.
UpdateConversationResult(convs, mem, u, c) ==
  IF ConvExists(convs, c) /\ ConvSelectPolicy(mem, u, c) /\ ConvUpdatePolicy(mem, u, c)
  THEN "ok" ELSE "norows"

\* "Users can view read receipts in their conversations": the message the
\* receipt names exists for the caller (the sub-select runs under the caller's
\* own view of messages) in a conversation the caller is a member of.
ReceiptSelectPolicy(msgs, mem, u, row) ==
  \E m \in MsgIds :
    /\ m = row.message_id
    /\ msgs[m] # NoRow
    /\ MsgSelectPolicy(mem, u, msgs[m])
    /\ is_conversation_member(mem, msgs[m].conversation_id, u)

\* "Users can mark messages as read"
ReceiptInsertPolicy(msgs, mem, u, row) ==
  row.user_id = u /\ ReceiptSelectPolicy(msgs, mem, u, row)

\* (variant: the table without UNIQUE(message_id, user_id))
InsertReceiptResult_noUnique(msgs, mem, rcpts, u, row) ==
  IF ~ReceiptInsertPolicy(msgs, mem, u, row) THEN "denied" ELSE "ok"

\* INSERT INTO read_receipts (message_id, user_id, read_at) VALUES row: the
\* policy's WITH CHECK, then UNIQUE(message_id, user_id); a row that passes
\* the policy names an existing message, so the foreign key holds.
InsertReceiptResult(msgs, mem, rcpts, u, row) ==
  IF ~ReceiptInsertPolicy(msgs, mem, u, row) THEN "denied"
  ELSE IF \E r \in rcpts : r.message_id = row.message_id /\ r.user_id = row.user_id
       THEN "unique"
  ELSE "ok"

\* "Users can insert own profile": WITH CHECK (id = auth.uid())
ProfileInsertPolicy(u, row) == row.id = u

\* "Users can update own profile": USING (id = auth.uid()), checked on the
\* updated row as well.
ProfileUpdatePolicy(u, row) == row.id = u

\* INSERT INTO profiles VALUES row, as the trigger does it (SECURITY DEFINER:
\* no policy applies): display_name NOT NULL, then the primary key.
TriggerInsertResult(profs, row) ==
  IF row.display_name = NullText THEN "notnull"
  ELSE IF \E p \in profs : p.id = row.id THEN "unique"
  ELSE "ok"

\* INSERT INTO profiles VALUES row by caller u.
InsertProfileResult(profs, u, row) ==
  IF ~ProfileInsertPolicy(u, row) THEN "denied"
  ELSE TriggerInsertResult(profs, row)

\* UPDATE profiles SET (id, display_name) = new WHERE id = old.id by caller u.
UpdateProfileResult(profs, u, old, new) ==
  IF ~ProfileUpdatePolicy(u, old) THEN "norows"
  ELSE IF ~ProfileUpdatePolicy(u, new) THEN "denied"
  ELSE IF new.display_name = NullText THEN "notnull"
  ELSE "ok"

\* The tables with conversation x absent (its rows gone with it: ON DELETE CASCADE).
ConvsWithout(convs, x) == [convs EXCEPT ![x] = "none"]
MembersWithout(mem, x) == {r \in mem : r[1] # x}
MessagesWithout(msgs, x) ==
  [m \in MsgIds |-> IF msgs[m] # NoRow /\ msgs[m].conversation_id = x
                    THEN NoRow ELSE msgs[m]]

\* gen_random_uuid(): an id no row has had (here the next unused number).
NewMsgId == msgCount + 1

\* gen_random_uuid() for conversations.id: conversations are never deleted
\* (no DELETE policy), so the next unused number is the number of rows plus one.
NewConvId == Cardinality({c \in ConvIds : ConvExists(conversations, c)}) + 1

Stmt(op, u, c, v, m, res) ==
  [op |-> op, caller |-> u, conv |-> c, user |-> v, msg |-> m, res |-> res]

\* ALTER PUBLICATION supabase_realtime ADD TABLE public.messages: the insert of
\* row as message m is sent to every client whose channel is subscribed with
\* the filter conversation_id = row.conversation_id and who may view the row.
Published(box, mem, m, row) ==
  [u \in Users |->
     IF /\ channelJoined[u]
        /\ panelConv[u] = row.conversation_id
        /\ MsgSelectPolicy(mem, u, row)
     THEN [box[u] EXCEPT ![m] = 1]
     ELSE box[u]]

\* read_receipts.message_id REFERENCES messages(id) ON DELETE CASCADE
ReceiptsWithout(rcpts, m) == {r \in rcpts : r.message_id # m}

\* COALESCE(a, b)
Coalesce(a, b) == IF a # NullText THEN a ELSE b

\* (variant: the trigger takes the email whatever the metadata)
handle_new_user_email(new) == [id |-> new.id, display_name |-> new.email]

\* handle_new_user(): the profile row the trigger inserts for the new identity.
handle_new_user(new) ==
  [id |-> new.id, display_name |-> Coalesce(new.display_name, new.email)]

----------------------------------------------------------------------------
\* The auth.users row of identity u after a signup with its name as display_name.
SignedUp(u) ==
  [id |-> u, email |-> IF u = "A" THEN "a@chat.io" ELSE "b@chat.io",
   display_name |-> u]

\* No fetchConversations call of the client is under way.
NoRun ==
  [stage |-> "none", answered |-> FALSE, failed |-> FALSE, ids |-> {}, rows |-> {}]

\* fetchConversations has sent its first query. stage is the query the call
\* awaits, answered whether the server has run it, ids / rows / failed its data.
StartedRun ==
  [stage |-> "memberRows", answered |-> FALSE, failed |-> FALSE, ids |-> {},
   rows |-> {}]

\* The chat tables empty; every client signed in on the desktop layout, its
\* page just mounted: nothing selected, the list empty, the sidebar's effect
\* having called fetchConversations.
InitChat ==
  /\ conversations = [c \in ConvIds |-> "none"]
  /\ conversation_members = {}
  /\ messages = [m \in MsgIds |-> NoRow]
  /\ msgCount = 0
  /\ last = Stmt("none", NoUser, Null, NoUser, Null, "ok")
  /\ handlers = [u \in Users |-> <<>>]
  /\ loading = [u \in Users |-> FALSE]
  /\ convList = [u \in Users |-> {}]
  /\ frun = [u \in Users |-> StartedRun]
  /\ activeConversationId = [u \in Users |-> Null]
  /\ isMobile = [u \in Users |-> FALSE]
  /\ panelConv = [u \in Users |-> Null]
  /\ channelJoined = [u \in Users |-> FALSE]
  /\ fetches = [u \in Users |-> <<>>]
  /\ panelMessages = [u \in Users |-> <<>>]
  /\ inbox = [u \in Users |-> [m \in MsgIds |-> 0]]
  /\ openInserts = {}
  /\ read_receipts = {}

\* Every identity has signed up, its own name given as display_name.
Init ==
  /\ InitChat
  /\ auth_users = {SignedUp(u) : u \in Users}
  /\ profiles = {handle_new_user(SignedUp(u)) : u \in Users}

\* Nobody has signed up yet.
InitSignup ==
  /\ InitChat
  /\ auth_users = {}
  /\ profiles = {}

\* INSERT INTO conversations (type) VALUES (t) by caller u.
CreateConversation(u, t) ==
  /\ NewConvId \in ConvIds
  /\ ConvInsertPolicy(u)
  /\ conversations' = [conversations EXCEPT ![NewConvId] = t]
  /\ last' = Stmt("conv_insert", u, NewConvId, NoUser, Null, "ok")
  /\ UNCHANGED <<conversation_members, messages, msgCount>>
  /\ UNCHANGED appvars
  /\ UNCHANGED restvars

InsertMember(u, c, v) ==
  LET res == InsertMemberResult(conversations, conversation_members, u, c, v) IN
  /\ conversation_members' =
       IF res = "ok" THEN conversation_members \cup {<<c, v>>}
       ELSE conversation_members
  /\ last' = Stmt("member_insert", u, c, v, Null, res)
  /\ UNCHANGED <<conversations, messages, msgCount>>
  /\ UNCHANGED appvars
  /\ UNCHANGED restvars

DeleteMember(u, c, v) ==
  LET res == DeleteMemberResult(conversation_members, u, c, v) IN
  /\ conversation_members' =
       IF res = "ok" THEN conversation_members \ {<<c, v>>}
       ELSE conversation_members
  /\ last' = Stmt("member_delete", u, c, v, Null, res)
  /\ UNCHANGED <<conversations, messages, msgCount>>
  /\ UNCHANGED appvars
  /\ UNCHANGED restvars

InsertMessage(u, c, s) ==
  LET row == [conversation_id |-> c, sender_id |-> s]
      res == InsertMessageResult(conversations, conversation_members, u, row) IN
  /\ res = "ok" => NewMsgId \in MsgIds
  /\ IF res = "ok"
     THEN /\ messages' = [messages EXCEPT ![NewMsgId] = row]
          /\ msgCount' = msgCount + 1
          /\ last' = Stmt("msg_insert", u, c, s, NewMsgId, res)
     ELSE /\ UNCHANGED <<messages, msgCount>>
          /\ last' = Stmt("msg_insert", u, c, s, Null, res)
  /\ inbox' = IF res = "ok"
              THEN Published(inbox, conversation_members, NewMsgId, row)
              ELSE inbox
  /\ openInserts' = IF res = "ok"
                    THEN openInserts \cup
                           {<<v, NewMsgId>> : v \in {w \in Users :
                              /\ panelConv[w] = c
                              /\ is_conversation_member(conversation_members, c, w)}}
                    ELSE openInserts
  /\ UNCHANGED <<conversations, conversation_members>>
  /\ UNCHANGED appvars
  /\ UNCHANGED <<panelvars, read_receipts, authvars>>

UpdateMessage(u, m, c, s) ==
  LET new == [conversation_id |-> c, sender_id |-> s]
      res == UpdateMessageResult(conversations, conversation_members, u,
                                 messages[m], new) IN
  /\ messages[m] # NoRow
  /\ messages' = IF res = "ok" THEN [messages EXCEPT ![m] = new] ELSE messages
  /\ last' = Stmt("msg_update", u, c, s, m, res)
  /\ UNCHANGED <<conversations, conversation_members, msgCount>>
  /\ UNCHANGED appvars
  /\ UNCHANGED restvars

DeleteMessage(u, m) ==
  LET res == DeleteMessageResult(conversation_members, u, messages[m]) IN
  /\ messages[m] # NoRow
  /\ messages' = IF res = "ok" THEN [messages EXCEPT ![m] = NoRow] ELSE messages
  /\ last' = Stmt("msg_delete", u, messages[m].conversation_id,
                  messages[m].sender_id, m, res)
  /\ read_receipts' = IF res = "ok" THEN ReceiptsWithout(read_receipts, m)
                      ELSE read_receipts
  /\ UNCHANGED <<conversations, conversation_members, msgCount>>
  /\ UNCHANGED appvars
  /\ UNCHANGED <<panelvars, feedvars, authvars>>

\* UPDATE conversations SET type = t WHERE id = c by caller u (the client
\* itself updates conversations, updated_at, after each message it sends).
UpdateConversation(u, c, t) ==
  LET res == UpdateConversationResult(conversations, conversation_members, u, c) IN
  /\ conversations' = IF res = "ok" THEN [conversations EXCEPT ![c] = t]
                      ELSE conversations
  /\ last' = Stmt("conv_update", u, c, NoUser, Null, res)
  /\ UNCHANGED <<conversation_members, messages, msgCount>>
  /\ UNCHANGED appvars
  /\ UNCHANGED restvars

\* The statements on conversations and conversation_members.
NextMembers ==
  \/ \E u \in Users, t \in ConvTypes : CreateConversation(u, t)
  \/ \E u \in Users, c \in ConvIds, t \in ConvTypes : UpdateConversation(u, c, t)
  \/ \E u \in Users, c \in ConvIds, v \in Users : InsertMember(u, c, v)
  \/ \E u \in Users, c \in ConvIds, v \in Users : DeleteMember(u, c, v)

SpecMembers == Init /\ [][NextMembers]_vars

\* Those and the statements on messages.
Next ==
  \/ NextMembers
  \/ \E u \in Users, c \in ConvIds, s \in Users : InsertMessage(u, c, s)
  \/ \E u \in Users, m \in MsgIds, c \in ConvIds, s \in Users :
       UpdateMessage(u, m, c, s)
  \/ \E u \in Users, m \in MsgIds : DeleteMessage(u, m)

Spec == Init /\ [][Next]_vars

\* INSERT INTO read_receipts by caller u: message m, user v, read_at t (now()
\* by default, or the value the caller gives).
InsertReceipt(u, m, v, t) ==
  LET row == [message_id |-> m, user_id |-> v, read_at |-> t]
      res == InsertReceiptResult(messages, conversation_members, read_receipts,
                                 u, row) IN
  /\ read_receipts' = IF res = "ok" THEN read_receipts \cup {row} ELSE read_receipts
  /\ last' = Stmt("receipt_insert", u, Null, v, m, res)
  /\ UNCHANGED dbvars
  /\ UNCHANGED appvars
  /\ UNCHANGED <<panelvars, feedvars, authvars>>

\* The statements on the chat tables and those on read_receipts.
NextReceipts ==
  \/ Next
  \/ \E u \in Users, m \in MsgIds, v \in Users, t \in Times : InsertReceipt(u, m, v, t)

SpecReceipts == Init /\ [][NextReceipts]_vars

----------------------------------------------------------------------------
\* The page of one signed-in client per identity (Chat, ChatSidebar).

\* const showSidebar = !isMobile || !activeConversationId: ChatSidebar is mounted.
showSidebar(u) == ~isMobile[u] \/ activeConversationId[u] = Null

\* const showMessages = !isMobile || activeConversationId: MessagePanel is mounted.
showMessages(u) == ~isMobile[u] \/ activeConversationId[u] # Null

\* The sequence without its i-th element.
Without(seq, i) == SubSeq(seq, 1, i - 1) \o SubSeq(seq, i + 1, Len(seq))

\* What a fetchConversations call over unchanging tables sets the list to: the
\* caller's membership rows, those conversations, and for each the profiles of
\* the members the caller may see.
FetchedList(convs, mem, u) ==
  LET memberRows == {r \in mem : r[2] = u /\ MemberSelectPolicy(mem, u, r[1])}
      convoIds == {r[1] : r \in memberRows}
      convos == UNION {ViewConversation(convs, mem, u, c) : c \in convoIds}
  IN {[id |-> c, type |-> convs[c],
       members |-> {r[2] : r \in ViewMembers(mem, u, c)}] : c \in convos}

\* A running startDM ("dm") or startGroup ("group"): where it waits (pc) and
\* whether the server has dealt with the request it waits for (answered); the
\* newChatEmail and conversations of the render it was clicked in (text,
\* seen); targetProfile.id, convo.id, its own fetchConversations call; and
\* whether the ChatSidebar it belongs to is still mounted (its setState calls
\* do nothing once it is not).
Handler(kind, at, text, list) ==
  [kind |-> kind, pc |-> at, answered |-> FALSE, text |-> text, seen |-> list,
   target |-> NoUser, convo |-> Null, run |-> NoRun, mounted |-> TRUE]

\* The sidebar is unmounted: the handlers under way go on without it.
Unmounted(hs) == [i \in 1..Len(hs) |-> [hs[i] EXCEPT !.mounted = FALSE]]

\* onSelectConversation(c), the handlers, loading and list of client u being
\* hs, ld and list otherwise. On the mobile layout the selection unmounts the
\* sidebar: its state, and the effect of the fetchConversations call of its
\* mount, are gone.
Selects(u, c, hs, ld, list) ==
  /\ activeConversationId' = [activeConversationId EXCEPT ![u] = c]
  /\ handlers' = [handlers EXCEPT ![u] = IF isMobile[u] THEN Unmounted(hs) ELSE hs]
  /\ loading' = [loading EXCEPT ![u] = IF isMobile[u] THEN FALSE ELSE ld]
  /\ convList' = [convList EXCEPT ![u] = IF isMobile[u] THEN {} ELSE list]
  /\ frun' = [frun EXCEPT ![u] = IF isMobile[u] THEN NoRun ELSE frun[u]]

\* Handler h of client u returns (finally: setLoading(false)).
Returns(u, h) ==
  /\ handlers' = [handlers EXCEPT ![u] = Without(handlers[u], h)]
  /\ loading' = [loading EXCEPT ![u] =
                   IF handlers[u][h].mounted THEN FALSE ELSE loading[u]]
  /\ UNCHANGED <<activeConversationId, convList, frun>>

\* The fetchConversations calls of client u: that of the sidebar's mount
\* effect (h = 0) and the one handler h awaits.
HasRun(u, h) ==
  h = 0 \/ (h \in 1..Len(handlers[u]) /\ handlers[u][h].pc = "refetch")

RunOf(u, h) == IF h = 0 THEN frun[u] ELSE handlers[u][h].run

\* The call goes on to its next query.
RunGoesOn(u, h, run) ==
  /\ IF h = 0
     THEN /\ frun' = [frun EXCEPT ![u] = run]
          /\ UNCHANGED handlers
     ELSE /\ handlers' = [handlers EXCEPT ![u][h].run = run]
          /\ UNCHANGED frun
  /\ UNCHANGED <<activeConversationId, loading, convList>>

\* The call ends, with setConversations(list) (set) or returning before it.
\* The handler that awaited it goes on: onSelectConversation(convo.id), and
\* it is done.
RunEnds(u, h, set, list) ==
  IF h = 0
  THEN /\ frun' = [frun EXCEPT ![u] = NoRun]
       /\ convList' = [convList EXCEPT ![u] = IF set THEN list ELSE convList[u]]
       /\ UNCHANGED <<activeConversationId, loading, handlers>>
  ELSE Selects(u, handlers[u][h].convo, Without(handlers[u], h),
               IF handlers[u][h].mounted THEN FALSE ELSE loading[u],
               IF set /\ handlers[u][h].mounted THEN list ELSE convList[u])

\* The server runs fetchConversations' first query: the caller's own
\* membership rows. ok is FALSE when the request fails (the client gets no
\* data).
MemberRowsQuery(u, h, ok) ==
  LET ids == IF ok
             THEN {r[1] : r \in {q \in conversation_members :
                      q[2] = u /\ MemberSelectPolicy(conversation_members, u, q[1])}}
             ELSE {} IN
  /\ HasRun(u, h)
  /\ RunOf(u, h).stage = "memberRows"
  /\ ~RunOf(u, h).answered
  /\ RunGoesOn(u, h, [RunOf(u, h) EXCEPT !.answered = TRUE, !.ids = ids])
  /\ UNCHANGED <<isMobile, last>>
  /\ UNCHANGED dbvars
  /\ UNCHANGED restvars

\* fetchConversations goes on after its first await: with no row (or no data)
\* the list is set to [] and the call returns; otherwise the second query is
\* sent.
FetchMemberRows(u, h) ==
  /\ HasRun(u, h)
  /\ RunOf(u, h).stage = "memberRows"
  /\ RunOf(u, h).answered
  /\ IF RunOf(u, h).ids = {}
     THEN RunEnds(u, h, TRUE, {})
     ELSE RunGoesOn(u, h, [RunOf(u, h) EXCEPT !.stage = "convos",
                                                !.answered = FALSE])
  /\ UNCHANGED <<isMobile, last>>
  /\ UNCHANGED dbvars
  /\ UNCHANGED restvars

\* A conversation of the second query's data, its own queries not yet sent.
DetailRow(c, type) ==
  [id |-> c, type |-> type, step |-> "members", answered |-> FALSE,
   ids |-> {}, members |-> {}]

\* The server runs the second query: the conversations with those ids that the
\* caller may view. ok is FALSE when the request fails (convos is null).
ConvosQuery(u, h, ok) ==
  LET convos == UNION {ViewConversation(conversations, conversation_members, u, c) :
                         c \in RunOf(u, h).ids} IN
  /\ HasRun(u, h)
  /\ RunOf(u, h).stage = "convos"
  /\ ~RunOf(u, h).answered
  /\ RunGoesOn(u, h, [RunOf(u, h) EXCEPT
                        !.answered = TRUE, !.failed = ~ok,
                        !.rows = IF ok
                                 THEN {DetailRow(c, conversations[c]) : c \in convos}
                                 ELSE {}])
  /\ UNCHANGED <<isMobile, last>>
  /\ UNCHANGED dbvars
  /\ UNCHANGED restvars

\* fetchConversations goes on after its second await: if (!convos) return
\* leaves the list as it is; otherwise the first query of every conversation
\* is sent (Promise.all over convos.map), and with no conversation the list is
\* set to [].
FetchConvos(u, h) ==
  /\ HasRun(u, h)
  /\ RunOf(u, h).stage = "convos"
  /\ RunOf(u, h).answered
  /\ IF RunOf(u, h).failed
     THEN RunEnds(u, h, FALSE, {})
     ELSE IF RunOf(u, h).rows = {}
     THEN RunEnds(u, h, TRUE, {})
     ELSE RunGoesOn(u, h, [RunOf(u, h) EXCEPT !.stage = "details",
                                                !.answered = FALSE])
  /\ UNCHANGED <<isMobile, last>>
  /\ UNCHANGED dbvars
  /\ UNCHANGED restvars

\* The server's answer to the query conversation row.id awaits: its member
\* rows (ids), the profiles with the ids the callback has asked for (members),
\* its last message (which the model's list entries leave out). ok is FALSE
\* when the request fails: members?.map(...) ?? [] and profiles ?? [] stand
\* for the missing data.
Answered(u, row, ok) ==
  IF row.step = "members"
  THEN [row EXCEPT !.answered = TRUE,
          !.ids = IF ok THEN {r[2] : r \in ViewMembers(conversation_members, u, row.id)}
                  ELSE {}]
  ELSE IF row.step = "profiles"
  THEN [row EXCEPT !.answered = TRUE,
          !.members = IF ok THEN {p.id : p \in {q \in profiles : q.id \in row.ids}}
                      ELSE {}]
  ELSE [row EXCEPT !.answered = TRUE]

\* The server runs the query conversation c of the call awaits.
DetailQuery(u, h, c, ok) ==
  /\ HasRun(u, h)
  /\ RunOf(u, h).stage = "details"
  /\ \E row \in RunOf(u, h).rows :
       /\ row.id = c
       /\ row.step # "done"
       /\ ~row.answered
       /\ RunGoesOn(u, h, [RunOf(u, h) EXCEPT
                             !.rows = (RunOf(u, h).rows \ {row})
                                        \cup {Answered(u, row, ok)}])
  /\ UNCHANGED <<isMobile, last>>
  /\ UNCHANGED dbvars
  /\ UNCHANGED restvars

\* The callback of a conversation goes on after an await: the next of its
\* three queries is sent, or it returns its entry.
Detailed(row) ==
  [row EXCEPT !.answered = FALSE,
              !.step = IF row.step = "members" THEN "profiles"
                       ELSE IF row.step = "profiles" THEN "messages"
                       ELSE "done"]

\* The callback of conversation c goes on; when the last callback has
\* returned, setConversations(detailed).
FetchDetail(u, h, c) ==
  /\ HasRun(u, h)
  /\ RunOf(u, h).stage = "details"
  /\ \E row \in RunOf(u, h).rows :
       LET rows == (RunOf(u, h).rows \ {row}) \cup {Detailed(row)} IN
       /\ row.id = c
       /\ row.step # "done"
       /\ row.answered
       /\ IF \A r \in rows : r.step = "done"
          THEN RunEnds(u, h, TRUE,
                       {[id |-> r.id, type |-> r.type, members |-> r.members] :
                          r \in rows})
          ELSE RunGoesOn(u, h, [RunOf(u, h) EXCEPT !.rows = rows])
  /\ UNCHANGED <<isMobile, last>>
  /\ UNCHANGED dbvars
  /\ UNCHANGED restvars

\* A click on a conversation of the list: onSelectConversation(convo.id).
SelectConversation(u, c) ==
  /\ showSidebar(u)
  /\ c \in {e.id : e \in convList[u]}
  /\ Selects(u, c, handlers[u], loading[u], convList[u])
  /\ UNCHANGED <<isMobile, last>>
  /\ UNCHANGED dbvars
  /\ UNCHANGED restvars

\* "Back to chats" (mobile layout, a conversation selected):
\* setActiveConversationId(null). The panel is unmounted: its effect's cleanup
\* runs and its state is gone, a response to its fetchMessages has nothing to
\* set. A new sidebar is mounted: an empty list, loading false, and the effect
\* that calls fetchConversations.
BackToChats(u) ==
  /\ isMobile[u]
  /\ activeConversationId[u] # Null
  /\ activeConversationId' = [activeConversationId EXCEPT ![u] = Null]
  /\ convList' = [convList EXCEPT ![u] = {}]
  /\ loading' = [loading EXCEPT ![u] = FALSE]
  /\ frun' = [frun EXCEPT ![u] = StartedRun]
  /\ panelConv' = [panelConv EXCEPT ![u] = Null]
  /\ channelJoined' = [channelJoined EXCEPT ![u] = FALSE]
  /\ fetches' = [fetches EXCEPT ![u] = <<>>]
  /\ panelMessages' = [panelMessages EXCEPT ![u] = <<>>]
  /\ inbox' = [inbox EXCEPT ![u] = [m \in MsgIds |-> 0]]
  /\ openInserts' = {p \in openInserts : p[1] # u}
  /\ UNCHANGED <<handlers, isMobile, last>>
  /\ UNCHANGED dbvars
  /\ UNCHANGED <<read_receipts, authvars>>

\* lower(s) of the texts the model uses.
Lower(s) ==
  CASE s \in {"A", "a"} -> "a"
    [] s \in {"B", "b"} -> "b"
    [] OTHER -> s

\* display_name ILIKE pattern: case-insensitive, % matches any text.
ILike(name, pattern) == pattern = "%" \/ Lower(name) = Lower(pattern)

\* The texts typed into "Search user by name...".
Typed == {"a", "%", "zed"}

\* The entries of a fetched list that startDM's "Check existing DM" can find:
\* c.type === "dm" && c.members.length === 2.
DMEntries(list) == {c \in list : c.type = "dm" /\ Cardinality(c.members) = 2}

\* startDM's "Check existing DM" over a fetched list.
ExistingDM(list, t) == {c \in DMEntries(list) : t \in c.members}

\* "Start Chat" (enabled while the mounted sidebar's loading is false and the
\* text is not empty): startDM sets loading and sends the profile lookup. The
\* handler is the one of the render it was clicked in: it reads that render's
\* newChatEmail and conversations, whatever the state is set to later (of the
\* list, the entries its check can find are kept).
StartDM(u, text) ==
  /\ showSidebar(u)
  /\ ~loading[u]
  /\ text # ""
  /\ Len(handlers[u]) < MaxHandlers
  /\ loading' = [loading EXCEPT ![u] = TRUE]
  /\ handlers' = [handlers EXCEPT ![u] =
                    Append(handlers[u], Handler("dm", "lookup", text, DMEntries(convList[u])))]
  /\ UNCHANGED <<convList, activeConversationId, frun, isMobile, last>>
  /\ UNCHANGED dbvars
  /\ UNCHANGED restvars

\* The server answers the profile lookup of handler h
\* (.ilike(...).limit(1).maybeSingle(): one of the matching profiles, or
\* none); ok is FALSE when the request fails (data is null, the error is not
\* looked at). The text is not read after this.
ProfileQuery(u, h, ok) ==
  /\ h \in 1..Len(handlers[u])
  /\ handlers[u][h].pc = "lookup"
  /\ ~handlers[u][h].answered
  /\ LET found == {p \in profiles : ILike(p.display_name, handlers[u][h].text)} IN
     IF ok /\ found # {}
     THEN \E p \in found :
            handlers' = [handlers EXCEPT ![u][h] =
                           [handlers[u][h] EXCEPT !.answered = TRUE, !.text = "",
                                                  !.target = p.id]]
     ELSE handlers' = [handlers EXCEPT ![u][h] =
                         [handlers[u][h] EXCEPT !.answered = TRUE, !.text = ""]]
  /\ UNCHANGED <<loading, convList, activeConversationId, frun, isMobile, last>>
  /\ UNCHANGED dbvars
  /\ UNCHANGED restvars

\* (variant: without the "That's you!" check)
ProfileLookup_noSelf(u, h) ==
  LET hd == handlers[u][h] IN
  /\ h \in 1..Len(handlers[u])
  /\ hd.pc = "lookup"
  /\ hd.answered
  /\ IF hd.target = NoUser
     THEN Returns(u, h)
     ELSE IF ExistingDM(hd.seen, hd.target) # {}
     THEN \E e \in ExistingDM(hd.seen, hd.target) :
            Selects(u, e.id, Without(handlers[u], h),
                    IF hd.mounted THEN FALSE ELSE loading[u], convList[u])
     ELSE /\ handlers' = [handlers EXCEPT ![u][h] =
                            [hd EXCEPT !.pc = "conv", !.answered = FALSE,
                                       !.seen = {}]]
          /\ UNCHANGED <<loading, convList, activeConversationId, frun>>
  /\ UNCHANGED <<isMobile, last>>
  /\ UNCHANGED dbvars
  /\ UNCHANGED restvars

\* The handler gets the lookup's answer: "User not found", "That's you!", the
\* existing dm of the captured list selected, or the conversation insert sent
\* (the captured list is not read after this).
ProfileLookup(u, h) ==
  LET hd == handlers[u][h] IN
  /\ h \in 1..Len(handlers[u])
  /\ hd.pc = "lookup"
  /\ hd.answered
  /\ IF hd.target = NoUser \/ hd.target = u
     THEN Returns(u, h)
     ELSE IF ExistingDM(hd.seen, hd.target) # {}
     THEN \E e \in ExistingDM(hd.seen, hd.target) :
            Selects(u, e.id, Without(handlers[u], h),
                    IF hd.mounted THEN FALSE ELSE loading[u], convList[u])
     ELSE /\ handlers' = [handlers EXCEPT ![u][h] =
                            [hd EXCEPT !.pc = "conv", !.answered = FALSE,
                                       !.seen = {}]]
          /\ UNCHANGED <<loading, convList, activeConversationId, frun>>
  /\ UNCHANGED <<isMobile, last>>
  /\ UNCHANGED dbvars
  /\ UNCHANGED restvars

\* "Create Group" (enabled while the mounted sidebar's loading is false and
\* the name is not empty): startGroup sets loading and sends its conversation
\* insert.
StartGroup(u) ==
  /\ showSidebar(u)
  /\ ~loading[u]
  /\ Len(handlers[u]) < MaxHandlers
  /\ loading' = [loading EXCEPT ![u] = TRUE]
  /\ handlers' = [handlers EXCEPT ![u] =
                    Append(handlers[u], Handler("group", "conv", "", {}))]
  /\ UNCHANGED <<convList, activeConversationId, frun, isMobile, last>>
  /\ UNCHANGED dbvars
  /\ UNCHANGED restvars

\* .insert({ type }).select().single(), that is INSERT INTO conversations ...
\* RETURNING *: the insert policy's WITH CHECK, and, the row being returned,
\* "Members can view conversations" on the new row with id c.
ConvInsertReturningResult(mem, u, c) ==
  IF ~ConvInsertPolicy(u) THEN "denied"
  ELSE IF ~ConvSelectPolicy(mem, u, c) THEN "denied"
  ELSE "ok"

\* The server runs the conversation insert of handler h (ok is FALSE when the
\* request fails before it gets there).
ConvInsert(u, h, ok) ==
  LET hd == handlers[u][h]
      res == IF ok THEN ConvInsertReturningResult(conversation_members, u, NewConvId)
             ELSE "error"
      op == IF hd.kind = "dm" THEN "startDM_insert" ELSE "startGroup_insert" IN
  /\ h \in 1..Len(handlers[u])
  /\ hd.pc = "conv"
  /\ ~hd.answered
  /\ res = "ok" => NewConvId \in ConvIds
  /\ conversations' = IF res = "ok"
                      THEN [conversations EXCEPT ![NewConvId] =
                              IF hd.kind = "dm" THEN "dm" ELSE "group"]
                      ELSE conversations
  /\ handlers' = [handlers EXCEPT ![u][h] =
                    [hd EXCEPT !.answered = TRUE,
                               !.convo = IF res = "ok" THEN NewConvId ELSE Null]]
  /\ last' = IF ok
             THEN Stmt(op, u, IF res = "ok" THEN NewConvId ELSE Null, hd.target,
                       Null, res)
             ELSE last
  /\ UNCHANGED <<loading, convList, activeConversationId, frun, isMobile>>
  /\ UNCHANGED <<conversation_members, messages, msgCount>>
  /\ UNCHANGED restvars

\* The handler gets the answer to its conversation insert: with the new row
\* it sends the membership insert, with an error (or no row) it shows "Failed
\* to create conversation" / "Failed to create group" and returns.
ConvInsertAnswered(u, h) ==
  LET hd == handlers[u][h] IN
  /\ h \in 1..Len(handlers[u])
  /\ hd.pc = "conv"
  /\ hd.answered
  /\ IF hd.convo = Null
     THEN Returns(u, h)
     ELSE /\ handlers' = [handlers EXCEPT ![u][h] =
                            [hd EXCEPT !.pc = "members", !.answered = FALSE]]
          /\ UNCHANGED <<loading, convList, activeConversationId, frun>>
  /\ UNCHANGED <<isMobile, last>>
  /\ UNCHANGED dbvars
  /\ UNCHANGED restvars

\* The rows startDM inserts into conversation_members for conversation c:
\* insert([{ conversation_id, user_id: user.id }, { conversation_id, user_id:
\* targetProfile.id }]).
StartDMRows(c, u, t) == << <<c, u>>, <<c, t>> >>

\* The row startGroup inserts.
StartGroupRows(c, u) == << <<c, u>> >>

\* The table after caller u's insert of rows, one statement.
AfterInsert(convs, mem, u, rows) ==
  IF InsertMembersResult(convs, mem, u, rows) = "ok"
  THEN mem \cup {rows[i] : i \in 1..Len(rows)}
  ELSE mem

\* The server runs the membership insert of handler h (ok is FALSE when the
\* request fails before it gets there). No behaviour gets here: the
\* conversation insert before it is always answered with an error.
MembersInsert(u, h, ok) ==
  LET hd == handlers[u][h]
      rows == IF hd.kind = "dm" THEN StartDMRows(hd.convo, u, hd.target)
              ELSE StartGroupRows(hd.convo, u) IN
  /\ h \in 1..Len(handlers[u])
  /\ hd.pc = "members"
  /\ ~hd.answered
  /\ conversation_members' =
       IF ok THEN AfterInsert(conversations, conversation_members, u, rows)
       ELSE conversation_members
  /\ handlers' = [handlers EXCEPT ![u][h] = [hd EXCEPT !.answered = TRUE]]
  /\ last' = IF ok
             THEN Stmt("members_insert", u, hd.convo, hd.target, Null,
                       InsertMembersResult(conversations, conversation_members,
                                           u, rows))
             ELSE last
  /\ UNCHANGED <<loading, convList, activeConversationId, frun, isMobile>>
  /\ UNCHANGED <<conversations, messages, msgCount>>
  /\ UNCHANGED restvars

\* The handler gets the answer to its membership insert, which it does not
\* look at, and calls fetchConversations.
MembersAnswered(u, h) ==
  LET hd == handlers[u][h] IN
  /\ h \in 1..Len(handlers[u])
  /\ hd.pc = "members"
  /\ hd.answered
  /\ handlers' = [handlers EXCEPT ![u][h] =
                    [hd EXCEPT !.pc = "refetch", !.answered = FALSE,
                               !.run = StartedRun]]
  /\ UNCHANGED <<loading, convList, activeConversationId, frun, isMobile, last>>
  /\ UNCHANGED dbvars
  /\ UNCHANGED restvars

\* A dm conversation of the two identities exists (conversation 1, both have
\* joined it); the page of A has just been mounted, on either layout; the list
\* of B (desktop layout) has been fetched, after or (where B's page is
\* followed) before the conversation was made.
InitDM ==
  /\ conversations = [c \in ConvIds |-> IF c = 1 THEN "dm" ELSE "none"]
  /\ conversation_members = {1} \X Users
  /\ messages = [m \in MsgIds |-> NoRow]
  /\ msgCount = 0
  /\ last = Stmt("none", NoUser, Null, NoUser, Null, "ok")
  /\ handlers = [u \in Users |-> <<>>]
  /\ loading = [u \in Users |-> FALSE]
  /\ frun = [u \in Users |-> IF u = "A" THEN StartedRun ELSE NoRun]
  /\ \E list \in {{}, FetchedList([c \in ConvIds |-> IF c = 1 THEN "dm" ELSE "none"],
                                  {1} \X Users, "B")} :
       convList = [u \in Users |-> IF u = "A" THEN {} ELSE list]
  /\ activeConversationId = [u \in Users |-> Null]
  /\ isMobile \in [Users -> BOOLEAN]
  /\ ~isMobile["B"]
  /\ isMobile["A"] => convList["B"] # {}
  /\ panelConv = [u \in Users |-> Null]
  /\ channelJoined = [u \in Users |-> FALSE]
  /\ fetches = [u \in Users |-> <<>>]
  /\ panelMessages = [u \in Users |-> <<>>]
  /\ inbox = [u \in Users |-> [m \in MsgIds |-> 0]]
  /\ openInserts = {}
  /\ read_receipts = {}
  /\ auth_users = {SignedUp(u) : u \in Users}
  /\ profiles = {handle_new_user(SignedUp(u)) : u \in Users}

\* The clients whose page is followed: both on the desktop layout; with A on
\* the mobile layout, A alone (B then acts through its statements only).
Pages == IF isMobile["A"] THEN {"A"} ELSE Users

\* The sidebars: the list fetch, row clicks, "Back to chats", startDM and
\* startGroup, while the two leave and re-join their conversation.
NextDM ==
  \/ \E u \in Pages, h \in 0..MaxHandlers, ok \in BOOLEAN : MemberRowsQuery(u, h, ok)
  \/ \E u \in Pages, h \in 0..MaxHandlers : FetchMemberRows(u, h)
  \/ \E u \in Pages, h \in 0..MaxHandlers, ok \in BOOLEAN : ConvosQuery(u, h, ok)
  \/ \E u \in Pages, h \in 0..MaxHandlers : FetchConvos(u, h)
  \/ \E u \in Pages, h \in 0..MaxHandlers, c \in ConvIds, ok \in BOOLEAN :
       DetailQuery(u, h, c, ok)
  \/ \E u \in Pages, h \in 0..MaxHandlers, c \in ConvIds : FetchDetail(u, h, c)
  \/ \E u \in Pages, c \in ConvIds : SelectConversation(u, c)
  \/ \E u \in Pages : BackToChats(u)
  \/ \E u \in Pages, text \in Typed : StartDM(u, text)
  \/ \E u \in Pages, h \in 1..MaxHandlers, ok \in BOOLEAN : ProfileQuery(u, h, ok)
  \/ \E u \in Pages, h \in 1..MaxHandlers : ProfileLookup(u, h)
  \/ \E u \in Pages : StartGroup(u)
  \/ \E u \in Pages, h \in 1..MaxHandlers, ok \in BOOLEAN : ConvInsert(u, h, ok)
  \/ \E u \in Pages, h \in 1..MaxHandlers : ConvInsertAnswered(u, h)
  \/ \E u \in Users : InsertMember(u, 1, u)
  \/ \E u \in Users : DeleteMember(u, 1, u)

SpecDM == InitDM /\ [][NextDM]_vars

----------------------------------------------------------------------------
\* MessagePanel of each client.

\* A row of the list: what the claims read of it.
Entry(m, c) == [id |-> m, conversation_id |-> c]

\* The ids of S from i on, ascending.
RECURSIVE Ascending(_, _)
Ascending(S, i) ==
  IF i > MaxMsgs THEN <<>>
  ELSE (IF i \in S THEN <<i>> ELSE <<>>) \o Ascending(S, i + 1)

\* fetchMessages' query for conversation c as caller u: the rows the caller may
\* view, .order("created_at") (ids are handed out in the order of creation).
FetchData(msgs, mem, u, c) ==
  LET ids == Ascending(ViewMessages(msgs, mem, u, c), 1) IN
  [i \in 1..Len(ids) |-> Entry(ids[i], msgs[ids[i]].conversation_id)]

Request(c) == [conv |-> c, answered |-> FALSE, data |-> <<>>]

\* useEffect(..., [conversationId, user?.id]): the prop has changed, so the
\* previous effect's cleanup runs (removeChannel: its handler gets no more
\* events) and the effect runs again: fetchMessages() is issued and a new
\* channel asks to be subscribed. The `messages` state is left as it is.
PanelEffect(u) ==
  LET c == activeConversationId[u] IN
  /\ showMessages(u)
  /\ c # Null
  /\ panelConv[u] # c
  /\ Len(fetches[u]) < MaxInFlight
  /\ panelConv' = [panelConv EXCEPT ![u] = c]
  /\ channelJoined' = [channelJoined EXCEPT ![u] = FALSE]
  /\ inbox' = [inbox EXCEPT ![u] = [m \in MsgIds |-> 0]]
  /\ fetches' = [fetches EXCEPT ![u] = Append(fetches[u], Request(c))]
  /\ openInserts' = {p \in openInserts : p[1] # u}
  /\ UNCHANGED <<panelMessages, last, read_receipts>>
  /\ UNCHANGED <<dbvars, appvars, authvars>>

\* .subscribe(): the server has registered the channel.
SubscriptionJoined(u) ==
  /\ panelConv[u] # Null
  /\ ~channelJoined[u]
  /\ channelJoined' = [channelJoined EXCEPT ![u] = TRUE]
  /\ UNCHANGED <<panelConv, fetches, panelMessages, last, read_receipts>>
  /\ UNCHANGED <<dbvars, appvars, feedvars, authvars>>

\* The server runs the query of the i-th request under way; ok is FALSE when
\* the request fails: the client gets no data (data is null, the error is not
\* looked at).
FetchQuery(u, i, ok) ==
  /\ i \in 1..Len(fetches[u])
  /\ ~fetches[u][i].answered
  /\ fetches' = [fetches EXCEPT ![u][i] =
       [conv |-> fetches[u][i].conv, answered |-> TRUE,
        data |-> IF ok
                 THEN FetchData(messages, conversation_members, u,
                                fetches[u][i].conv)
                 ELSE <<>>]]
  /\ UNCHANGED <<panelConv, channelJoined, panelMessages, last, read_receipts>>
  /\ UNCHANGED <<dbvars, appvars, feedvars, authvars>>

\* The response of the i-th request arrives (responses come in any order):
\* setMessages(data ?? []), whichever effect had issued the request; a failed
\* request empties the list.
FetchResponse(u, i) ==
  /\ i \in 1..Len(fetches[u])
  /\ fetches[u][i].answered
  /\ panelMessages' = [panelMessages EXCEPT ![u] = fetches[u][i].data]
  /\ fetches' = [fetches EXCEPT ![u] = Without(fetches[u], i)]
  /\ UNCHANGED <<panelConv, channelJoined, last, read_receipts>>
  /\ UNCHANGED <<dbvars, appvars, feedvars, authvars>>

\* The feed sends an insert event once more (delivery is at least once).
FeedDuplicate(u, m) ==
  /\ inbox[u][m] > 0
  /\ inbox[u][m] < MaxDeliveries
  /\ inbox' = [inbox EXCEPT ![u][m] = inbox[u][m] + 1]
  /\ UNCHANGED <<openInserts, last, read_receipts>>
  /\ UNCHANGED <<dbvars, appvars, panelvars, authvars>>

\* The channel's handler gets the event of message m:
\* setMessages((prev) => [...prev, newMsg]).
DeliverEvent(u, m) ==
  /\ inbox[u][m] > 0
  /\ Len(panelMessages[u]) < MaxList
  /\ inbox' = [inbox EXCEPT ![u][m] = inbox[u][m] - 1]
  /\ panelMessages' = [panelMessages EXCEPT ![u] =
                         Append(panelMessages[u], Entry(m, panelConv[u]))]
  /\ UNCHANGED <<panelConv, channelJoined, fetches, openInserts, last, read_receipts>>
  /\ UNCHANGED <<dbvars, appvars, authvars>>

\* The clients whose panel is followed; the other client sends, changes and
\* deletes messages.
Viewers == {"A"}

\* The chat as the panels find it: every conversation a group that all
\* identities have joined, each sidebar's list fetched, the page of a viewer
\* on either layout.
InitPanel ==
  /\ conversations = [c \in ConvIds |-> "group"]
  /\ conversation_members = ConvIds \X Users
  /\ messages = [m \in MsgIds |-> NoRow]
  /\ msgCount = 0
  /\ last = Stmt("none", NoUser, Null, NoUser, Null, "ok")
  /\ handlers = [u \in Users |-> <<>>]
  /\ loading = [u \in Users |-> FALSE]
  /\ convList = [u \in Users |->
                   FetchedList([c \in ConvIds |-> "group"], ConvIds \X Users, u)]
  /\ frun = [u \in Users |-> NoRun]
  /\ activeConversationId = [u \in Users |-> Null]
  /\ isMobile \in [Users -> BOOLEAN]
  /\ \A u \in Users \ Viewers : ~isMobile[u]
  /\ panelConv = [u \in Users |-> Null]
  /\ channelJoined = [u \in Users |-> FALSE]
  /\ fetches = [u \in Users |-> <<>>]
  /\ panelMessages = [u \in Users |-> <<>>]
  /\ inbox = [u \in Users |-> [m \in MsgIds |-> 0]]
  /\ openInserts = {}
  /\ read_receipts = {}
  /\ auth_users = {SignedUp(u) : u \in Users}
  /\ profiles = {handle_new_user(SignedUp(u)) : u \in Users}

NextPanel ==
  \/ \E u \in Viewers, c \in ConvIds : InsertMember(u, c, u)
  \/ \E u \in Viewers, c \in ConvIds : DeleteMember(u, c, u)
  \/ \E u \in Users, c \in ConvIds : InsertMessage(u, c, u)
  \/ \E u \in Users, m \in MsgIds, c \in ConvIds : UpdateMessage(u, m, c, u)
  \/ \E u \in Users, m \in MsgIds : DeleteMessage(u, m)
  \/ \E u \in Viewers, c \in ConvIds : SelectConversation(u, c)
  \/ \E u \in Viewers : BackToChats(u)
  \/ \E u \in Viewers, ok \in BOOLEAN : MemberRowsQuery(u, 0, ok)
  \/ \E u \in Viewers : FetchMemberRows(u, 0)
  \/ \E u \in Viewers, ok \in BOOLEAN : ConvosQuery(u, 0, ok)
  \/ \E u \in Viewers : FetchConvos(u, 0)
  \/ \E u \in Viewers, c \in ConvIds, ok \in BOOLEAN : DetailQuery(u, 0, c, ok)
  \/ \E u \in Viewers, c \in ConvIds : FetchDetail(u, 0, c)
  \/ \E u \in Viewers : PanelEffect(u)
  \/ \E u \in Viewers : SubscriptionJoined(u)
  \/ \E u \in Viewers, i \in 1..MaxInFlight, ok \in BOOLEAN : FetchQuery(u, i, ok)
  \/ \E u \in Viewers, i \in 1..MaxInFlight : FetchResponse(u, i)
  \/ \E u \in Viewers, m \in MsgIds : FeedDuplicate(u, m)
  \/ \E u \in Viewers, m \in MsgIds : DeliverEvent(u, m)

SpecPanel == InitPanel /\ [][NextPanel]_vars

\* Nothing of client u's panel is under way: the effect has run for the
\* selected conversation, its channel is subscribed, and every fetch response
\* and insert event has been processed.
Quiescent(u) ==
  /\ panelConv[u] = activeConversationId[u]
  /\ channelJoined[u]
  /\ fetches[u] = <<>>
  /\ \A m \in MsgIds : inbox[u][m] = 0

InList(u, m) == \E i \in 1..Len(panelMessages[u]) : panelMessages[u][i].id = m

----------------------------------------------------------------------------
\* Sign-up and the profiles table.

\* INSERT INTO auth.users (the auth service creating identity id with the
\* given email and display_name metadata), on_auth_user_created firing in the
\* same transaction: an error of the trigger's insert aborts it.
SignUp(id, email, meta) ==
  LET new == [id |-> id, email |-> email, display_name |-> meta]
      res == TriggerInsertResult(profiles, handle_new_user(new)) IN
  /\ \A r \in auth_users : r.id # id
  /\ IF res = "ok"
     THEN /\ auth_users' = auth_users \cup {new}
          /\ profiles' = profiles \cup {handle_new_user(new)}
     ELSE UNCHANGED <<auth_users, profiles>>
  /\ last' = Stmt("signup", NoUser, Null, id, Null, res)
  /\ UNCHANGED <<dbvars, appvars, panelvars, feedvars, read_receipts>>

\* INSERT INTO profiles (id, display_name) by signed-in caller u.
InsertProfile(u, id, name) ==
  LET res == InsertProfileResult(profiles, u, [id |-> id, display_name |-> name]) IN
  /\ \E r \in auth_users : r.id = u
  /\ profiles' = IF res = "ok"
                 THEN profiles \cup {[id |-> id, display_name |-> name]}
                 ELSE profiles
  /\ last' = Stmt("profile_insert", u, Null, id, Null, res)
  /\ UNCHANGED <<dbvars, appvars, panelvars, feedvars, read_receipts, auth_users>>

\* UPDATE profiles SET id = newid, display_name = name WHERE id = id by
\* signed-in caller u.
UpdateProfile(u, id, newid, name) ==
  /\ \E r \in auth_users : r.id = u
  /\ \E old \in profiles :
       LET new == [id |-> newid, display_name |-> name]
           res == UpdateProfileResult(profiles, u, old, new) IN
       /\ old.id = id
       /\ profiles' = IF res = "ok" THEN (profiles \ {old}) \cup {new} ELSE profiles
       /\ last' = Stmt("profile_update", u, Null, id, Null, res)
  /\ UNCHANGED <<dbvars, appvars, panelvars, feedvars, read_receipts, auth_users>>

\* DELETE FROM auth.users WHERE id = id (the auth service removing an
\* identity): every row referencing it goes with it (ON DELETE CASCADE).
DeleteIdentity(id) ==
  /\ \E r \in auth_users : r.id = id
  /\ auth_users' = {r \in auth_users : r.id # id}
  /\ profiles' = {p \in profiles : p.id # id}
  /\ conversation_members' = {r \in conversation_members : r[2] # id}
  /\ messages' = [m \in MsgIds |->
                    IF messages[m].sender_id = id THEN NoRow ELSE messages[m]]
  /\ read_receipts' =
       {r \in read_receipts :
          r.user_id # id /\ messages[r.message_id].sender_id # id}
  /\ last' = Stmt("identity_delete", NoUser, Null, id, Null, "ok")
  /\ UNCHANGED <<conversations, msgCount>>
  /\ UNCHANGED <<appvars, panelvars, feedvars>>

NextSignup ==
  \/ \E id \in Users, email \in Emails \cup {NullText}, meta \in Names \cup {NullText} :
       SignUp(id, email, meta)
  \/ \E u \in Users, id \in Users, name \in Names : InsertProfile(u, id, name)
  \/ \E u \in Users, id \in Users, newid \in Users, name \in Names :
       UpdateProfile(u, id, newid, name)
  \/ \E id \in Users : DeleteIdentity(id)

SpecSignup == InitSignup /\ [][NextSignup]_vars

----------------------------------------------------------------------------
\* Shorthands for the claims.

CanViewConversation(u, c) ==
  ViewConversation(conversations, conversation_members, u, c) = {c}

CanViewMessageIn(msgs, mem, u, m) ==
  /\ msgs[m] # NoRow
  /\ m \in ViewMessages(msgs, mem, u, msgs[m].conversation_id)

CanViewMessage(u, m) == CanViewMessageIn(messages, conversation_members, u, m)

\* A statement the policies let through (whatever the constraints then say).
PolicyPermitted(res) == res \notin {"denied", "norows"}

Orphan(convs, mem, c) == ConvExists(convs, c) /\ Members(mem, c) = {}

----------------------------------------------------------------------------
\* C1: in every reachable state, identity u can view conversation c exactly
\* when a membership row (c, u) exists; a successful membership insert makes
\* the conversation visible to the member it names, a successful delete hides it.
C1_ViewIffMember ==
  /\ \A c \in ConvIds, u \in Users :
       CanViewConversation(u, c) <=> <<c, u>> \in conversation_members
  /\ (last.op = "member_insert" /\ last.res = "ok")
       => CanViewConversation(last.user, last.conv)
  /\ (last.op = "member_delete" /\ last.res = "ok")
       => ~CanViewConversation(last.user, last.conv)

C1_Witness ==
  /\ last.op = "member_delete" /\ last.res = "ok"
  /\ ~CanViewConversation(last.user, last.conv)
  /\ \E u \in Users : CanViewConversation(u, last.conv)

\* C2: a message insert succeeds exactly when the row's sender_id is the
\* caller and the caller is a member of the target conversation; in a dm
\* conversation whose only member is a, another identity b can neither view
\* the conversation nor insert any message into it.
C2_MessageInsert ==
  /\ last.op = "msg_insert" =>
       (last.res = "ok" <=>
          /\ last.user = last.caller
          /\ <<last.conv, last.caller>> \in conversation_members)
  /\ \A c \in ConvIds, a \in Users, b \in Users :
       (b # a /\ conversations[c] = "dm"
          /\ Members(conversation_members, c) = {a}) =>
         /\ ~CanViewConversation(b, c)
         /\ \A s \in Users :
              InsertMessageResult(conversations, conversation_members, b,
                [conversation_id |-> c, sender_id |-> s]) # "ok"

C2_Witness ==
  /\ last.op = "msg_insert" /\ last.res = "denied"
  /\ last.user = last.caller
  /\ conversations[last.conv] = "dm"
  /\ \E a \in Users \ {last.caller} :
       Members(conversation_members, last.conv) = {a}

\* C3: a delete of message M, or an update of M that leaves its sender_id and
\* conversation_id as they are, by caller U takes effect exactly when U is M's
\* sender, whether or not the sender is a member of M's conversation.
C3_SenderOnly ==
  [][\/ last'.op = "msg_delete"
     \/ /\ last'.op = "msg_update"
        /\ messages[last'.msg] =
             [conversation_id |-> last'.conv, sender_id |-> last'.user]
     => (last'.res = "ok" <=> last'.caller = messages[last'.msg].sender_id)]_vars

\* C4 as stated: an insert of a membership row (C, V) with V other than the
\* caller succeeds exactly when the caller is a member of C; an insert naming
\* the caller is never refused by the policy.
C4_Original ==
  last.op = "member_insert" =>
    IF last.user # last.caller
    THEN last.res = "ok" <=> <<last.conv, last.caller>> \in conversation_members
    ELSE last.res # "denied"

\* C4 amended: an insert of (C, V) with V other than the caller is refused by
\* the policy exactly when the caller is not a member of C, and succeeds
\* exactly when the caller is a member of C and no row (C, V) exists yet (a
\* duplicate fails on the uniqueness constraint); an insert naming the caller
\* is never refused by the policy, whatever the caller's membership.
C4_InviteNeedsMembership ==
  [][last'.op = "member_insert" =>
       IF last'.user # last'.caller
       THEN /\ last'.res = "denied" <=>
                 <<last'.conv, last'.caller>> \notin conversation_members
            /\ last'.res = "ok" <=>
                 /\ <<last'.conv, last'.caller>> \in conversation_members
                 /\ <<last'.conv, last'.user>> \notin conversation_members
       ELSE /\ last'.res # "denied"
            /\ last'.res = "ok" <=>
                 /\ ConvExists(conversations, last'.conv)
                 /\ <<last'.conv, last'.user>> \notin conversation_members]_vars

C4_Witness ==
  /\ last.op = "member_insert" /\ last.res = "ok"
  /\ last.user # last.caller
  /\ {last.user, last.caller} \subseteq Members(conversation_members, last.conv)

\* C5: a delete of a membership row naming someone other than the caller
\* removes nothing, also when the caller is a member of that conversation; a
\* membership row disappears only through a delete issued by the identity it names.
C5_OnlySelfLeave ==
  [][/\ (last'.op = "member_delete" /\ last'.user # last'.caller) =>
          /\ last'.res # "ok"
          /\ conversation_members' = conversation_members
     /\ \A r \in conversation_members \ conversation_members' :
          /\ last'.op = "member_delete"
          /\ last'.caller = r[2]
          /\ last'.user = r[2]
          /\ last'.conv = r[1]]_vars

C5_Witness ==
  /\ last.op = "member_delete" /\ last.res = "norows"
  /\ last.user # last.caller
  /\ {last.user, last.caller} \subseteq Members(conversation_members, last.conv)

\* The checks of C6 for message m of sender a with b a member of its conversation.
LeaveChecks(convs, mem, msgs, m, a, b, g) ==
  /\ CanViewMessageIn(msgs, mem, b, m)
  /\ UpdateMessageResult(convs, mem, a, msgs[m], msgs[m]) = "ok"
  /\ DeleteMessageResult(mem, a, msgs[m]) = "ok"
  /\ \A s \in Users :
       InsertMessageResult(convs, mem, a,
         [conversation_id |-> g, sender_id |-> s]) # "ok"

\* C6: once message M, sent by a, is in G, a is not a member of G and b is:
\* b can view M, a's edit and delete of M are permitted and every insert by a
\* into G is rejected, and this stays so in the next state unless a has
\* re-joined, b has left or M has been deleted.
C6_LeaveScenario ==
  [][\A m \in MsgIds, a \in Users, b \in Users, g \in ConvIds :
       ( /\ b # a
         /\ messages[m] = [conversation_id |-> g, sender_id |-> a]
         /\ <<g, a>> \notin conversation_members
         /\ <<g, b>> \in conversation_members )
       => /\ LeaveChecks(conversations, conversation_members, messages, m, a, b, g)
          /\ ( /\ messages'[m] # NoRow
               /\ <<g, a>> \notin conversation_members'
               /\ <<g, b>> \in conversation_members' )
             => LeaveChecks(conversations', conversation_members', messages',
                            m, a, b, g)]_vars

\* C7 as stated: once a conversation exists with no membership rows, no
\* permitted operation leads to a state where anyone can view it or a message in it.
C7_Original ==
  [][\A c \in ConvIds :
       Orphan(conversations, conversation_members, c) =>
         \A u \in Users :
           /\ ViewConversation(conversations', conversation_members', u, c) = {}
           /\ ViewMessages(messages', conversation_members', u, c) = {}]_vars

\* C7 amended: while a conversation has no membership rows nobody can view it
\* or a message in it, and the only operation that ends this is an insert of
\* a membership row by the identity the row names (a self-join); no insert
\* naming another identity and no other operation does.
C7_OrphanUntilSelfJoin ==
  [][\A c \in ConvIds :
       Orphan(conversations, conversation_members, c) =>
         /\ \A u \in Users :
              /\ ViewConversation(conversations, conversation_members, u, c) = {}
              /\ ViewMessages(messages, conversation_members, u, c) = {}
         /\ \/ Orphan(conversations', conversation_members', c)
            \/ /\ last'.op = "member_insert" /\ last'.res = "ok"
               /\ last'.conv = c
               /\ last'.user = last'.caller
               /\ Members(conversation_members', c) = {last'.caller}]_vars

C7_Witness ==
  /\ last.op = "member_insert" /\ last.res = "ok"
  /\ last.user = last.caller
  /\ Members(conversation_members, last.conv) = {last.caller}
  /\ CanViewConversation(last.caller, last.conv)
  /\ \E m \in MsgIds : CanViewMessage(last.caller, m)

\* C8: a message is created with the caller as its sender_id in the
\* conversation the insert names, and no statement changes the sender_id or
\* the conversation_id of an existing message.
C8_Immutable ==
  [][/\ (last'.op = "msg_insert" /\ last'.res = "ok") =>
          messages'[last'.msg] =
            [conversation_id |-> last'.conv, sender_id |-> last'.caller]
     /\ \A m \in MsgIds :
          (messages[m] # NoRow /\ messages'[m] # NoRow) =>
            /\ messages'[m].conversation_id = messages[m].conversation_id
            /\ messages'[m].sender_id = messages[m].sender_id]_vars

\* The statements of C9 that name conversation x, with their outcome for
\* caller u over the given tables; selfJoin says whether the membership
\* insert naming u itself is among them.
Observations(convs, mem, msgs, u, x, selfJoin) ==
  [ conv |-> ViewConversation(convs, mem, u, x),
    members |-> ViewMembers(mem, u, x),
    msgs |-> ViewMessages(msgs, mem, u, x),
    send |-> [s \in Users |->
                InsertMessageResult(convs, mem, u,
                  [conversation_id |-> x, sender_id |-> s])],
    add |-> [v \in Users |->
               IF v = u /\ ~selfJoin THEN "-"
               ELSE InsertMemberResult(convs, mem, u, x, v)] ]

SameAsAbsent(u, x, selfJoin) ==
  Observations(conversations, conversation_members, messages, u, x, selfJoin)
    = Observations(ConvsWithout(conversations, x),
                   MembersWithout(conversation_members, x),
                   MessagesWithout(messages, x), u, x, selfJoin)

\* C9 as stated: for a non-member u of an existing conversation x, every
\* statement naming x (the three views, a message insert, a membership
\* insert) has the outcome it would have if x did not exist.
C9_Original ==
  \A u \in Users, x \in ConvIds :
    (ConvExists(conversations, x) /\ <<x, u>> \notin conversation_members)
      => SameAsAbsent(u, x, TRUE)

\* C9 amended: for a non-member u of an existing conversation x, the three
\* views, every message insert and every membership insert naming another
\* identity have the outcome they would have if x did not exist; the
\* membership insert naming u itself does not: it succeeds when x exists and
\* fails on the foreign key when it does not.
C9_Indistinguishable ==
  \A u \in Users, x \in ConvIds :
    (ConvExists(conversations, x) /\ <<x, u>> \notin conversation_members)
      => /\ SameAsAbsent(u, x, FALSE)
         /\ InsertMemberResult(conversations, conversation_members, u, x, u) = "ok"
         /\ InsertMemberResult(ConvsWithout(conversations, x),
                               MembersWithout(conversation_members, x),
                               u, x, u) = "fk"

C9_Witness ==
  /\ last.op = "msg_insert" /\ last.res = "denied"
  /\ last.user = last.caller
  /\ ConvExists(conversations, last.conv)
  /\ Members(conversation_members, last.conv) # {}
  /\ \E m \in MsgIds :
       messages[m] # NoRow /\ messages[m].conversation_id = last.conv

\* C11: MessagePanel's list never holds two entries with the same message id,
\* whether the feed sends an insert event more than once or sends a message
\* the fetch has returned as well.
C11_NoDuplicateIds ==
  \A u \in Users :
    \A i \in 1..Len(panelMessages[u]), j \in 1..Len(panelMessages[u]) :
      i # j => panelMessages[u][i].id # panelMessages[u][j].id

\* C12: a message inserted into conversation c while member u had c open
\* (from the start of the effect on) is in u's list once the fetch responses
\* and insert events under way have been processed, u still being a member
\* with c open and the message still a row of c: it has appeared and no later
\* fetch result has removed it.
C12_NewMessagesArrive ==
  \A u \in Users, m \in MsgIds :
    ( /\ <<u, m>> \in openInserts
      /\ Quiescent(u)
      /\ is_conversation_member(conversation_members, panelConv[u], u)
      /\ messages[m].conversation_id = panelConv[u] )
    => InList(u, m)

\* The receipts of message m and user v.
ReceiptsOf(rcpts, m, v) == {r \in rcpts : r.message_id = m /\ r.user_id = v}

\* C13 as stated: an insert of a receipt whose (message_id, user_id) pair
\* exists fails with a uniqueness violation and changes nothing; there is at
\* most one receipt per pair.
C13_Original ==
  [][/\ ( /\ last'.op = "receipt_insert"
          /\ ReceiptsOf(read_receipts, last'.msg, last'.user) # {} )
        => /\ last'.res = "unique"
           /\ read_receipts' = read_receipts
     /\ \A m \in MsgIds, v \in Users :
          Cardinality(ReceiptsOf(read_receipts', m, v)) <= 1]_vars

\* C13 amended: an insert of a receipt whose (message_id, user_id) pair exists
\* always fails and leaves the receipts, the existing row's read_at included,
\* as they are; it fails with a uniqueness violation exactly when the row
\* passes the insert policy (the caller is the user it names and is a member
\* of the message's conversation) and is refused by the policy otherwise;
\* there is at most one receipt per pair.
C13_DuplicateFails ==
  [][/\ ( /\ last'.op = "receipt_insert"
          /\ ReceiptsOf(read_receipts, last'.msg, last'.user) # {} )
        => /\ last'.res \in {"unique", "denied"}
           /\ last'.res = "unique" <=>
                /\ last'.user = last'.caller
                /\ is_conversation_member(conversation_members,
                     messages[last'.msg].conversation_id, last'.caller)
           /\ read_receipts' = read_receipts
     /\ \A m \in MsgIds, v \in Users :
          Cardinality(ReceiptsOf(read_receipts', m, v)) <= 1]_vars

C13_Witness ==
  /\ last.op = "receipt_insert" /\ last.res = "unique"
  /\ last.user = last.caller
  /\ Cardinality(ReceiptsOf(read_receipts, last.msg, last.user)) = 1

\* The profiles of identity id.
ProfilesOf(profs, id) == {p \in profs : p.id = id}

\* C14: a sign-up that succeeds creates, in the same step, the identity and
\* exactly one profile with its id, whose display name is the display_name
\* metadata when given and the email otherwise; a sign-up whose profile insert
\* fails creates no identity; every identity has exactly one profile.
C14_SignupProfile ==
  [][/\ last'.op = "signup" =>
          IF last'.res = "ok"
          THEN \E new \in auth_users' \ auth_users :
                 /\ new.id = last'.user
                 /\ auth_users' = auth_users \cup {new}
                 /\ ProfilesOf(profiles, new.id) = {}
                 /\ profiles' = profiles \cup
                      {[id |-> new.id,
                        display_name |-> IF new.display_name # NullText
                                         THEN new.display_name ELSE new.email]}
          ELSE /\ auth_users' = auth_users
               /\ profiles' = profiles
     /\ \A r \in auth_users' : Cardinality(ProfilesOf(profiles', r.id)) = 1
     /\ \A p \in profiles' : \E r \in auth_users' : r.id = p.id]_vars

C14_Witness ==
  /\ last.op = "signup" /\ last.res = "ok"
  /\ \E r \in auth_users :
       /\ r.id = last.user
       /\ r.display_name = NullText
       /\ ProfilesOf(profiles, r.id) = {[id |-> r.id, display_name |-> r.email]}
  /\ \E r \in auth_users : r.id # last.user /\ r.display_name # NullText

\* C16: once the panel's effect has run for the selected conversation and
\* every fetch response and insert event under way has been processed, each
\* entry of the list is a message of the selected conversation.
C16_OnlySelected ==
  \A u \in Users :
    (Quiescent(u) /\ panelConv[u] # Null) =>
      \A i \in 1..Len(panelMessages[u]) :
        panelMessages[u][i].conversation_id = panelConv[u]

\* The dm conversations whose members are exactly a and b.
DMsOf(convs, mem, a, b) ==
  {c \in ConvIds : convs[c] = "dm" /\ Members(mem, c) = {a, b}}

\* C17: while the clients run startDM in any interleaving, with lists as old
\* as they may be, there is at most one dm conversation whose members are
\* exactly a given pair of identities; no conversation insert of startDM is
\* answered with a new row; and no startDM call whose target is the caller
\* gets as far as its conversation insert.
C17_NoSecondDM ==
  /\ \A a \in Users, b \in Users :
       Cardinality(DMsOf(conversations, conversation_members, a, b)) <= 1
  /\ last.op = "startDM_insert" => last.res # "ok"
  /\ \A u \in Users :
       \A h \in 1..Len(handlers[u]) :
         (handlers[u][h].kind = "dm" /\ handlers[u][h].pc # "lookup")
           => handlers[u][h].target # u

C17_Witness ==
  /\ last.op = "startDM_insert" /\ last.res = "denied"
  /\ DMsOf(conversations, conversation_members, last.caller, last.user) # {}
  /\ \E u \in Users \ {last.caller} :
       \E h \in 1..Len(handlers[u]) :
         /\ handlers[u][h].kind = "dm" /\ handlers[u][h].pc = "conv"
         /\ handlers[u][h].target = last.caller

====
